---- MODULE Spec2Model ----
(***************************************************************************)
(* Model of src/src/outputlist.cpp: the outputlist constructor (reading    *)
(* the [fdfault.outputlist] section of an input file through an ifstream), *)
(* the destructor, write_list and close_list.                              *)
(*                                                                         *)
(* The input file is a sequence of characters (one-character strings).     *)
(* The ifstream is a record of the read position and the eofbit/failbit    *)
(* state flags; getline and operator>> are modelled character by           *)
(* character as the C++ standard library defines them.                     *)
(***************************************************************************)
EXTENDS Integers, Sequences, FiniteSets, TLC

\* ------------------------------------------------------------------ bounds

\* largest number of pieces (marker line, blank line, declarations) of an input file
MaxPieces == 4

\* largest time step passed to write_list
MaxTstep == 1

\* ------------------------------------------------------- characters, ints

\* the marker line the constructor scans for (outputlist.cpp:31)
Marker ==
    <<"[", "f", "d", "f", "a", "u", "l", "t", ".",
      "o", "u", "t", "p", "u", "t", "l", "i", "s", "t", "]">>

NL == "\n"

\* std::isspace in the "C" locale, for the characters an input file holds here
IsSpace(c) == c \in {" ", "\t", "\n"}

Digits == <<"0", "1", "2", "3", "4", "5", "6", "7", "8", "9">>

IsDigit(c) == \E i \in 1..10 : Digits[i] = c

DigitVal(c) == (CHOOSE i \in 1..10 : Digits[i] = c) - 1

\* the largest value of the C++ type int (32 bits)
IntMax == 2147483647

IntMin == 0 - IntMax - 1

\* what the conversion of a digit string that does not fit an int gives
Overflow == <<>>

\* An int object of the program is a sequence: <<n>> when it holds the value
\* n, <<>> when it was declared and never assigned (outputlist.cpp:23), so
\* that reading it gives an indeterminate value.
Val(n) == <<n>>

Uninit == <<>>

IsDet(v) == v # Uninit

\* ------------------------------------------------------------ the ifstream

\* index of the first newline of f at or after p, 0 when there is none
RECURSIVE FindNewline(_, _)
FindNewline(f, p) ==
    IF p > Len(f) THEN 0
    ELSE IF f[p] = NL THEN p
    ELSE FindNewline(f, p + 1)

\* index of the first character of f at or after p that is not whitespace
\* (Len(f) + 1 when there is none): the sentry's whitespace skip
RECURSIVE SkipWs(_, _)
SkipWs(f, p) ==
    IF p > Len(f) THEN p
    ELSE IF IsSpace(f[p]) THEN SkipWs(f, p + 1)
    ELSE p

\* index one past the word that starts at p
RECURSIVE WordEnd(_, _)
WordEnd(f, p) ==
    IF p > Len(f) THEN p
    ELSE IF IsSpace(f[p]) THEN p
    ELSE WordEnd(f, p + 1)

\* index one past the run of digits that starts at p
RECURSIVE DigitsEnd(_, _)
DigitsEnd(f, p) ==
    IF p > Len(f) THEN p
    ELSE IF IsDigit(f[p]) THEN DigitsEnd(f, p + 1)
    ELSE p

\* value of the digits f[p..q-1] with the sign applied, accumulated left to
\* right as num_get does; Overflow once the value leaves the range of int
RECURSIVE DigitsValue(_, _, _, _, _)
DigitsValue(f, p, q, neg, acc) ==
    IF p >= q THEN <<acc>>
    ELSE LET dv == DigitVal(f[p])
         IN IF ~neg /\ acc > (IntMax - dv) \div 10 THEN Overflow
            ELSE IF neg /\ acc < (IntMin + dv + 9) \div 10 THEN Overflow
            ELSE DigitsValue(f, p + 1, q, neg,
                             IF neg THEN 10 * acc - dv ELSE 10 * acc + dv)

\* ios::good()
Good(s) == s.open /\ ~s.eof /\ ~s.fail

\* std::getline(paramfile, str): returns the stream and the string
GetLine(f, s, str) ==
    IF ~Good(s)
    THEN \* the sentry fails: failbit, str is left as it was
         [s |-> [s EXCEPT !.fail = TRUE], str |-> str]
    ELSE LET e == FindNewline(f, s.pos)
         IN IF e # 0
            THEN \* the newline is extracted and dropped
                 [s |-> [s EXCEPT !.pos = e + 1],
                  str |-> SubSeq(f, s.pos, e - 1)]
            ELSE \* end of file before a newline: eofbit, and failbit when
                 \* no character was extracted
                 [s |-> [s EXCEPT !.pos = Len(f) + 1, !.eof = TRUE,
                                  !.fail = (s.pos > Len(f))],
                  str |-> SubSeq(f, s.pos, Len(f))]

\* paramfile >> str for a std::string
ExtractString(f, s, str) ==
    IF ~Good(s)
    THEN [s |-> [s EXCEPT !.fail = TRUE], v |-> str]
    ELSE LET p == SkipWs(f, s.pos)
         IN IF p > Len(f)
            THEN \* only whitespace left: the sentry sets eofbit and failbit
                 [s |-> [s EXCEPT !.pos = p, !.eof = TRUE, !.fail = TRUE],
                  v |-> str]
            ELSE LET q == WordEnd(f, p)
                 IN [s |-> [s EXCEPT !.pos = q, !.eof = (q > Len(f))],
                     v |-> SubSeq(f, p, q - 1)]

\* paramfile >> val for an int. cxx11 tells which library rule the build
\* follows for a failed conversion: zero (or the nearest limit) is stored
\* since C++11, the variable is left as it was before.
ExtractInt(f, s, val, cxx11) ==
    IF ~Good(s)
    THEN [s |-> [s EXCEPT !.fail = TRUE], v |-> val]
    ELSE LET p == SkipWs(f, s.pos)
         IN IF p > Len(f)
            THEN [s |-> [s EXCEPT !.pos = p, !.eof = TRUE, !.fail = TRUE],
                  v |-> val]
            ELSE LET signed == f[p] \in {"+", "-"}
                     d == IF signed THEN p + 1 ELSE p
                     q == DigitsEnd(f, d)
                     neg == f[p] = "-"
                     n == DigitsValue(f, d, q, neg, 0)
                     atEof == q > Len(f)
                 IN IF q = d
                    THEN \* no digit: the conversion fails
                         [s |-> [s EXCEPT !.pos = q, !.eof = atEof, !.fail = TRUE],
                          v |-> IF cxx11 THEN Val(0) ELSE val]
                    ELSE IF n = Overflow
                    THEN \* out of the range of int
                         [s |-> [s EXCEPT !.pos = q, !.eof = atEof, !.fail = TRUE],
                          v |-> IF ~cxx11 THEN val
                                ELSE IF neg THEN Val(IntMin) ELSE Val(IntMax)]
                    ELSE [s |-> [s EXCEPT !.pos = q, !.eof = atEof], v |-> Val(n[1])]

\* ------------------------------------------------------------- input files

\* decimal text of a natural number
RECURSIVE NatToText(_)
NatToText(n) ==
    IF n < 10 THEN <<Digits[n + 1]>>
    ELSE Append(NatToText(n \div 10), Digits[(n % 10) + 1])

IntToText(n) == IF n < 0 THEN <<"-">> \o NatToText(0 - n) ELSE NatToText(n)

\* two unit declarations; sep is the whitespace written between two tokens
DeclA ==
    [name |-> <<"a">>, field |-> <<"v", "x">>, tm |-> 0, tp |-> 10, ts |-> 2,
     xm |-> <<1, 2, 3>>, xp |-> <<4, 5, 6>>, xs |-> <<7, 8, 9>>, sep |-> <<" ">>]

DeclB ==
    [name |-> <<"b", " ", "c">>, field |-> <<"s">>, tm |-> 1, tp |-> 1, ts |-> 1,
     xm |-> <<0, -3, 12>>, xp |-> <<20, 30, 40>>, xs |-> <<1, 1, 5>>,
     sep |-> <<" ", "\t">>]

\* the 13 tokens of a declaration, in the order of the input format
DeclTokens(d) ==
    <<d.field, IntToText(d.tm), IntToText(d.tp), IntToText(d.ts),
      IntToText(d.xm[1]), IntToText(d.xp[1]), IntToText(d.xs[1]),
      IntToText(d.xm[2]), IntToText(d.xp[2]), IntToText(d.xs[2]),
      IntToText(d.xm[3]), IntToText(d.xp[3]), IntToText(d.xs[3])>>

RECURSIVE JoinTokens(_, _)
JoinTokens(toks, sep) ==
    IF toks = <<>> THEN <<>>
    ELSE IF Len(toks) = 1 THEN toks[1]
    ELSE toks[1] \o sep \o JoinTokens(Tail(toks), sep)

\* the pieces an input file is made of:
\*   marker  the line [fdfault.outputlist]
\*   blank   an empty line
\*   decl    a well-formed declaration: the name line and a line of 13 tokens
\*   trunc   a declaration cut short after its first n tokens
\*   bad     a declaration whose token number n is not an integer
Pieces ==
    {[kind |-> "marker", d |-> DeclA, n |-> 0],
     [kind |-> "blank", d |-> DeclA, n |-> 0],
     [kind |-> "decl", d |-> DeclA, n |-> 13],
     [kind |-> "decl", d |-> DeclB, n |-> 13],
     [kind |-> "trunc", d |-> DeclB, n |-> 0],
     [kind |-> "trunc", d |-> DeclA, n |-> 3],
     [kind |-> "bad", d |-> DeclA, n |-> 3]}

PieceText(p) ==
    CASE p.kind = "marker" -> Marker \o <<NL>>
      [] p.kind = "blank" -> <<NL>>
      [] p.kind = "decl" ->
            p.d.name \o <<NL>> \o JoinTokens(DeclTokens(p.d), p.d.sep) \o <<NL>>
      [] p.kind = "trunc" ->
            p.d.name \o <<NL>>
            \o (IF p.n = 0 THEN <<>>
                ELSE JoinTokens(SubSeq(DeclTokens(p.d), 1, p.n), p.d.sep) \o <<NL>>)
      [] p.kind = "bad" ->
            p.d.name \o <<NL>>
            \o JoinTokens([DeclTokens(p.d) EXCEPT ![p.n] = <<"x">>], p.d.sep)
            \o <<NL>>

RECURSIVE PiecesText(_)
PiecesText(ps) ==
    IF ps = <<>> THEN <<>> ELSE PieceText(Head(ps)) \o PiecesText(Tail(ps))

\* the text of the file: its pieces, with or without the newline that ends
\* the last line
FileText(ps, nl) ==
    LET t == PiecesText(ps)
    IN IF nl \/ t = <<>> THEN t ELSE SubSeq(t, 1, Len(t) - 1)

PieceSeqs == UNION {[1..n -> Pieces] : n \in 0..MaxPieces}

\* ------------------------------------------------------------------- state

VARIABLES
    input,      \* the pieces the input file was written from
    endnl,      \* whether the last line of the file ends with a newline
    file,       \* the characters of the input file
    pc,         \* position of the program
    paramfile,  \* the ifstream: [open, pos, eof, fail]
    line, name, field, tm, tp, ts, xm, xp, xs,   \* locals of the constructor
    units,      \* the heap of outputunit objects, a unit's address is its index
    rootunit,   \* outputlist::rootunit (0 is the null pointer)
    cunit, nunit, ounit,   \* list cursors of the running member function (nunit
                \* is not initialised and is assigned before it is first read)
    tstep,      \* the time step argument of the running write_list (0 outside it)
    visited,    \* units the running traversal has acted on so far, in order
    stderr,     \* messages written to cerr
    aborted,    \* communicators MPI_Abort was called on
    fault       \* a freed unit was read or deleted again

vars ==
    <<input, endnl, file, pc, paramfile, line, name, field, tm, tp, ts, xm, xp, xs,
      units, rootunit, cunit, nunit, ounit, tstep, visited, stderr, aborted, fault>>

ctorLocals == <<line, name, field, tm, tp, ts, xm, xp, xs>>

inputVars == <<input, endnl, file>>

Init ==
    /\ input \in PieceSeqs
    /\ endnl \in BOOLEAN
    /\ file = FileText(input, endnl)
    /\ pc = "start"
    /\ paramfile = [open |-> FALSE, pos |-> 1, eof |-> FALSE, fail |-> FALSE]
    /\ line = <<>>
    /\ name = <<>>
    /\ field = <<>>
    /\ tm = Uninit
    /\ tp = Uninit
    /\ ts = Uninit
    /\ xm = <<Uninit, Uninit, Uninit>>
    /\ xp = <<Uninit, Uninit, Uninit>>
    /\ xs = <<Uninit, Uninit, Uninit>>
    /\ units = <<>>
    /\ rootunit = 0
    /\ cunit = 0
    /\ nunit = 0
    /\ ounit = 0
    /\ tstep = 0
    /\ visited = <<>>
    /\ stderr = <<>>
    /\ aborted = <<>>
    /\ fault = FALSE

\* ------------------------------------------------------------ outputunit

\* outputunit::outputunit: the unit keeps the parameters it is constructed
\* with, has no next unit and no open output file
NewUnit(tm_in, tp_in, ts_in, xm_in, xp_in, xs_in, field_in, name_in) ==
    [name |-> name_in, field |-> field_in, tm |-> tm_in, tp |-> tp_in,
     ts |-> ts_in, xm |-> xm_in, xp |-> xp_in, xs |-> xs_in,
     next |-> 0, open |-> FALSE, deleted |-> 0]

\* outputunit::set_next_unit and outputunit::get_next_unit
SetNextUnit(us, u, n) == [us EXCEPT ![u].next = n]

GetNextUnit(us, u) == us[u].next

\* whether the temporal window of unit u includes time step t; both answers
\* are possible when a window parameter is indeterminate or the stride is 0
WindowOutcomes(u, t) ==
    IF IsDet(u.tm) /\ IsDet(u.tp) /\ IsDet(u.ts) /\ u.ts # Val(0)
    THEN LET stride == IF u.ts[1] > 0 THEN u.ts[1] ELSE 0 - u.ts[1]
         IN {u.tm[1] <= t /\ t <= u.tp[1] /\ (t - u.tm[1]) % stride = 0}
    ELSE BOOLEAN

\* outputunit::write_unit: when the window includes the time step the unit
\* writes to its output file, which is opened on the first write
WriteUnit(us, u, inWindow) ==
    IF inWindow THEN [us EXCEPT ![u].open = TRUE] ELSE us

\* outputunit::close_file
CloseFile(us, u) == [us EXCEPT ![u].open = FALSE]

\* delete of a unit: outputunit::~outputunit frees the object
DeleteUnit(us, u) == [us EXCEPT ![u].deleted = @ + 1]

\* ------------------------------------------------------------ constructor

ErrOpen == "Error opening input file in outputlist.cpp\n"

ErrRead == "Error reading outputlist from input file\n"

\* MPI_Abort(MPI_COMM_WORLD,-1): every process of the communicator ends
MpiAbort(msg) ==
    /\ stderr' = Append(stderr, msg)
    /\ aborted' = Append(aborted, [comm |-> "MPI_COMM_WORLD", errorcode |-> -1])
    /\ pc' = "aborted"

\* Ctor_Open with a local exit in place of the collective abort
Ctor_Open_LocalExit ==
    /\ pc = "start"
    /\ rootunit' = 0
    /\ cunit' = 0
    /\ \E ok \in BOOLEAN :
          /\ paramfile' = [open |-> ok, pos |-> 1, eof |-> FALSE, fail |-> ~ok]
          /\ IF ok
             THEN pc' = "scan" /\ UNCHANGED <<stderr, aborted>>
             ELSE /\ stderr' = Append(stderr, ErrOpen)
                  /\ pc' = "aborted"
                  /\ UNCHANGED aborted
    /\ UNCHANGED <<inputVars, ctorLocals, units, nunit, ounit, tstep, visited, fault>>

\* lines 14-28 and 69-72: the members and locals are set, the file is opened
\* (the file system decides whether that succeeds)
Ctor_Open ==
    /\ pc = "start"
    /\ rootunit' = 0
    /\ cunit' = 0
    /\ \E ok \in BOOLEAN :
          /\ paramfile' = [open |-> ok, pos |-> 1, eof |-> FALSE, fail |-> ~ok]
          /\ IF ok
             THEN pc' = "scan" /\ UNCHANGED <<stderr, aborted>>
             ELSE MpiAbort(ErrOpen)
    /\ UNCHANGED <<inputVars, ctorLocals, units, nunit, ounit, tstep, visited, fault>>

\* lines 30-34: one turn of the loop that scans for the marker line
Ctor_ScanLine ==
    /\ pc = "scan"
    /\ LET r == GetLine(file, paramfile, line)
       IN /\ paramfile' = r.s
          /\ line' = r.str
          /\ pc' = IF r.s.fail THEN "scanned"
                   ELSE IF r.str = Marker THEN "scanned"
                   ELSE "scan"
    /\ UNCHANGED <<inputVars, name, field, tm, tp, ts, xm, xp, xs, units, rootunit,
                   cunit, nunit, ounit, tstep, visited, stderr, aborted, fault>>

\* Ctor_CheckEof that reports the error and goes on without MPI_Abort
Ctor_CheckEof_NoAbort ==
    /\ pc = "scanned"
    /\ IF paramfile.eof
       THEN /\ stderr' = Append(stderr, ErrRead)
            /\ pc' = "unitloop"
            /\ UNCHANGED aborted
       ELSE pc' = "unitloop" /\ UNCHANGED <<stderr, aborted>>
    /\ UNCHANGED <<inputVars, paramfile, ctorLocals, units, rootunit, cunit, nunit,
                   ounit, tstep, visited, fault>>

\* Ctor_CheckEof that tests fail() in place of eof()
Ctor_CheckEof_TestsFail ==
    /\ pc = "scanned"
    /\ IF paramfile.fail
       THEN MpiAbort(ErrRead)
       ELSE pc' = "unitloop" /\ UNCHANGED <<stderr, aborted>>
    /\ UNCHANGED <<inputVars, paramfile, ctorLocals, units, rootunit, cunit, nunit,
                   ounit, tstep, visited, fault>>

\* lines 35-38: the test that follows the scan
Ctor_CheckEof ==
    /\ pc = "scanned"
    /\ IF paramfile.eof
       THEN MpiAbort(ErrRead)
       ELSE pc' = "unitloop" /\ UNCHANGED <<stderr, aborted>>
    /\ UNCHANGED <<inputVars, paramfile, ctorLocals, units, rootunit, cunit, nunit,
                   ounit, tstep, visited, fault>>

\* lines 40-43: the head of the loop that reads the units
Ctor_NextLine ==
    /\ pc = "unitloop"
    /\ LET r == GetLine(file, paramfile, line)
       IN /\ paramfile' = r.s
          /\ line' = r.str
          /\ pc' = IF r.s.fail THEN "close"
                   ELSE IF r.str = <<>> THEN "close"
                   ELSE "extract"
    /\ UNCHANGED <<inputVars, name, field, tm, tp, ts, xm, xp, xs, units, rootunit,
                   cunit, nunit, ounit, tstep, visited, stderr, aborted, fault>>

\* Ctor_Extract that reads the stride of a direction before its upper limit
Ctor_Extract_StrideFirst ==
    /\ pc = "extract"
    /\ \E cxx11 \in BOOLEAN :
       LET r0  == ExtractString(file, paramfile, field)
           r1  == ExtractInt(file, r0.s, tm, cxx11)
           r2  == ExtractInt(file, r1.s, tp, cxx11)
           r3  == ExtractInt(file, r2.s, ts, cxx11)
           a1  == ExtractInt(file, r3.s, xm[1], cxx11)
           c1  == ExtractInt(file, a1.s, xs[1], cxx11)
           b1  == ExtractInt(file, c1.s, xp[1], cxx11)
           a2  == ExtractInt(file, b1.s, xm[2], cxx11)
           c2  == ExtractInt(file, a2.s, xs[2], cxx11)
           b2  == ExtractInt(file, c2.s, xp[2], cxx11)
           a3  == ExtractInt(file, b2.s, xm[3], cxx11)
           c3  == ExtractInt(file, a3.s, xs[3], cxx11)
           b3  == ExtractInt(file, c3.s, xp[3], cxx11)
       IN /\ name' = line
          /\ field' = r0.v
          /\ tm' = r1.v
          /\ tp' = r2.v
          /\ ts' = r3.v
          /\ xm' = <<a1.v, a2.v, a3.v>>
          /\ xp' = <<b1.v, b2.v, b3.v>>
          /\ xs' = <<c1.v, c2.v, c3.v>>
          /\ paramfile' = b3.s
    /\ pc' = "append"
    /\ UNCHANGED <<inputVars, line, units, rootunit, cunit, nunit, ounit, tstep,
                   visited, stderr, aborted, fault>>

\* lines 45-54: the name is the line, then the 13 formatted extractions.
\* A run has at most one failed conversion that stores a value (the failbit
\* it sets is never cleared and every later extraction is skipped), so the
\* library rule of the build is chosen where it is used.
Ctor_Extract ==
    /\ pc = "extract"
    /\ \E cxx11 \in BOOLEAN :
       LET r0  == ExtractString(file, paramfile, field)
           r1  == ExtractInt(file, r0.s, tm, cxx11)
           r2  == ExtractInt(file, r1.s, tp, cxx11)
           r3  == ExtractInt(file, r2.s, ts, cxx11)
           a1  == ExtractInt(file, r3.s, xm[1], cxx11)
           b1  == ExtractInt(file, a1.s, xp[1], cxx11)
           c1  == ExtractInt(file, b1.s, xs[1], cxx11)
           a2  == ExtractInt(file, c1.s, xm[2], cxx11)
           b2  == ExtractInt(file, a2.s, xp[2], cxx11)
           c2  == ExtractInt(file, b2.s, xs[2], cxx11)
           a3  == ExtractInt(file, c2.s, xm[3], cxx11)
           b3  == ExtractInt(file, a3.s, xp[3], cxx11)
           c3  == ExtractInt(file, b3.s, xs[3], cxx11)
       IN /\ name' = line
          /\ field' = r0.v
          /\ tm' = r1.v
          /\ tp' = r2.v
          /\ ts' = r3.v
          /\ xm' = <<a1.v, a2.v, a3.v>>
          /\ xp' = <<b1.v, b2.v, b3.v>>
          /\ xs' = <<c1.v, c2.v, c3.v>>
          /\ paramfile' = c3.s
    /\ pc' = "append"
    /\ UNCHANGED <<inputVars, line, units, rootunit, cunit, nunit, ounit, tstep,
                   visited, stderr, aborted, fault>>

\* Ctor_Append that links the new unit in front of the list
Ctor_Append_AtHead ==
    /\ pc = "append"
    /\ LET r == GetLine(file, paramfile, line)
           c == Len(units) + 1
           us == Append(units, NewUnit(tm, tp, ts, xm, xp, xs, field, name))
       IN /\ paramfile' = r.s
          /\ line' = r.str
          /\ cunit' = c
          /\ units' = SetNextUnit(us, c, rootunit)
          /\ rootunit' = c
          /\ nunit' = c
    /\ pc' = "unitloop"
    /\ UNCHANGED <<inputVars, name, field, tm, tp, ts, xm, xp, xs, ounit, tstep,
                   visited, stderr, aborted, fault>>

\* lines 56-65: the rest of the line is skipped, the unit is constructed and
\* linked at the tail of the list
Ctor_Append ==
    /\ pc = "append"
    /\ LET r == GetLine(file, paramfile, line)
           c == Len(units) + 1
           us == Append(units, NewUnit(tm, tp, ts, xm, xp, xs, field, name))
       IN /\ paramfile' = r.s
          /\ line' = r.str
          /\ cunit' = c
          /\ IF rootunit = 0
             THEN /\ rootunit' = c
                  /\ nunit' = c
                  /\ units' = us
             ELSE /\ rootunit' = rootunit
                  /\ units' = SetNextUnit(us, nunit, c)
                  /\ nunit' = GetNextUnit(units', nunit)
    /\ pc' = "unitloop"
    /\ UNCHANGED <<inputVars, name, field, tm, tp, ts, xm, xp, xs, ounit, tstep,
                   visited, stderr, aborted, fault>>

\* line 73: paramfile.close(), the constructor returns
Ctor_Close ==
    /\ pc = "close"
    /\ paramfile' = [paramfile EXCEPT !.open = FALSE]
    /\ pc' = "ready"
    /\ UNCHANGED <<inputVars, ctorLocals, units, rootunit, cunit, nunit, ounit,
                   tstep, visited, stderr, aborted, fault>>

\* ------------------------------------------------- write_list, close_list

\* lines 89-92: write_list is called with a time step
Write_Begin ==
    /\ pc = "ready"
    /\ \E t \in 0..MaxTstep : tstep' = t
    /\ cunit' = rootunit
    /\ visited' = <<>>
    /\ pc' = "write"
    /\ UNCHANGED <<inputVars, paramfile, ctorLocals, units, rootunit, nunit, ounit,
                   stderr, aborted, fault>>

\* Write_Step whose loop ends at the unit that has no next unit
Write_Step_StopsAtLast ==
    /\ pc = "write"
    /\ IF cunit = 0 \/ GetNextUnit(units, cunit) = 0
       THEN /\ pc' = "ready"
            /\ visited' = <<>>
            /\ tstep' = 0
            /\ UNCHANGED <<units, cunit>>
       ELSE /\ \E w \in WindowOutcomes(units[cunit], tstep) :
                  units' = WriteUnit(units, cunit, w)
            /\ visited' = Append(visited, cunit)
            /\ cunit' = GetNextUnit(units', cunit)
            /\ pc' = "write"
            /\ UNCHANGED tstep
    /\ UNCHANGED <<inputVars, paramfile, ctorLocals, rootunit, nunit, ounit,
                   stderr, aborted, fault>>

\* lines 96-99: one turn of the loop, or its end
Write_Step ==
    /\ pc = "write"
    /\ IF cunit = 0
       THEN /\ pc' = "ready"
            /\ visited' = <<>>
            /\ tstep' = 0
            /\ UNCHANGED <<units, cunit>>
       ELSE /\ \E w \in WindowOutcomes(units[cunit], tstep) :
                  units' = WriteUnit(units, cunit, w)
            /\ visited' = Append(visited, cunit)
            /\ cunit' = GetNextUnit(units', cunit)
            /\ pc' = "write"
            /\ UNCHANGED tstep
    /\ UNCHANGED <<inputVars, paramfile, ctorLocals, rootunit, nunit, ounit,
                   stderr, aborted, fault>>

\* lines 103-106
Close_Begin ==
    /\ pc = "ready"
    /\ cunit' = rootunit
    /\ visited' = <<>>
    /\ pc' = "closing"
    /\ UNCHANGED <<inputVars, paramfile, ctorLocals, units, rootunit, nunit, ounit,
                   tstep, stderr, aborted, fault>>

\* lines 110-113: one turn of the loop, or its end
Close_Step ==
    /\ pc = "closing"
    /\ IF cunit = 0
       THEN pc' = "ready" /\ visited' = <<>> /\ UNCHANGED <<units, cunit>>
       ELSE /\ units' = CloseFile(units, cunit)
            /\ visited' = Append(visited, cunit)
            /\ cunit' = GetNextUnit(units', cunit)
            /\ pc' = "closing"
    /\ UNCHANGED <<inputVars, paramfile, ctorLocals, rootunit, nunit, ounit, tstep,
                   stderr, aborted, fault>>

\* -------------------------------------------------------------- destructor

\* lines 79-80
Dtor_Begin ==
    /\ pc = "ready"
    /\ ounit' = rootunit
    /\ cunit' = rootunit
    /\ visited' = <<>>
    /\ pc' = "dtor"
    /\ UNCHANGED <<inputVars, paramfile, ctorLocals, units, rootunit, nunit, tstep,
                   stderr, aborted, fault>>

\* Dtor_Step that deletes ounit before the next pointer is read through cunit
Dtor_Step_DeleteFirst ==
    /\ pc = "dtor"
    /\ IF ounit = 0
       THEN pc' = "destroyed" /\ UNCHANGED <<units, cunit, ounit, visited, fault>>
       ELSE LET us == DeleteUnit(units, ounit)
                nxt == GetNextUnit(us, cunit)
            IN /\ units' = us
               /\ cunit' = nxt
               /\ fault' = (fault \/ us[cunit].deleted > 0 \/ units[ounit].deleted > 0)
               /\ visited' = Append(visited, ounit)
               /\ ounit' = nxt
               /\ pc' = "dtor"
    /\ UNCHANGED <<inputVars, paramfile, ctorLocals, rootunit, nunit, tstep,
                   stderr, aborted>>

\* lines 82-86: one turn of the loop (the next pointer is read through cunit,
\* then ounit is deleted, then ounit moves on), or its end. Reading a deleted
\* unit or deleting a unit again is a fault.
Dtor_Step ==
    /\ pc = "dtor"
    /\ IF ounit = 0
       THEN pc' = "destroyed" /\ UNCHANGED <<units, cunit, ounit, visited, fault>>
       ELSE LET nxt == GetNextUnit(units, cunit)
            IN /\ cunit' = nxt
               /\ units' = DeleteUnit(units, ounit)
               /\ fault' = (fault \/ units[cunit].deleted > 0 \/ units[ounit].deleted > 0)
               /\ visited' = Append(visited, ounit)
               /\ ounit' = nxt
               /\ pc' = "dtor"
    /\ UNCHANGED <<inputVars, paramfile, ctorLocals, rootunit, nunit, tstep,
                   stderr, aborted>>

\* ------------------------------------------------------------ specification

Next ==
    \/ Ctor_Open
    \/ Ctor_ScanLine
    \/ Ctor_CheckEof
    \/ Ctor_NextLine
    \/ Ctor_Extract
    \/ Ctor_Append
    \/ Ctor_Close
    \/ Write_Begin
    \/ Write_Step
    \/ Close_Begin
    \/ Close_Step
    \/ Dtor_Begin
    \/ Dtor_Step

Spec == Init /\ [][Next]_vars

\* ------------------------------------------------- reading the input file

\* the positions of the file where a line starts: the first character and
\* every character that follows a newline
LineStarts == {p \in 1..Len(file) : p = 1 \/ file[p - 1] = NL}

\* the line that starts at p is the marker (it ends at a newline or at the
\* end of the file)
MarkerLineAt(p) ==
    /\ p + Len(Marker) - 1 <= Len(file)
    /\ SubSeq(file, p, p + Len(Marker) - 1) = Marker
    /\ (p + Len(Marker) > Len(file) \/ file[p + Len(Marker)] = NL)

HasMarkerLine == \E p \in LineStarts : MarkerLineAt(p)

\* number of lines of the file
NumLines == Cardinality(LineStarts)

\* the first marker line is followed by a newline
MarkerLineTerminated ==
    \E p \in LineStarts :
        /\ MarkerLineAt(p)
        /\ \A q \in LineStarts : MarkerLineAt(q) => p <= q
        /\ p + Len(Marker) <= Len(file)

\* the last line of the file is the marker
LastLineIsMarker ==
    \E p \in LineStarts : MarkerLineAt(p) /\ \A q \in LineStarts : q <= p

\* index of the first marker piece of the input, 0 when there is none
RECURSIVE FirstMarker(_, _)
FirstMarker(ps, i) ==
    IF i > Len(ps) THEN 0
    ELSE IF ps[i].kind = "marker" THEN i
    ELSE FirstMarker(ps, i + 1)

\* number of well-formed declarations in a row from piece i on
RECURSIVE CountDecls(_, _)
CountDecls(ps, i) ==
    IF i > Len(ps) THEN 0
    ELSE IF ps[i].kind = "decl" THEN 1 + CountDecls(ps, i + 1)
    ELSE 0

SectionStart == FirstMarker(input, 1)

\* the well-formed declarations that follow the marker line directly
SectionDecls ==
    IF SectionStart = 0 THEN <<>>
    ELSE [k \in 1..CountDecls(input, SectionStart + 1) |-> input[SectionStart + k].d]

\* the section is N well-formed declarations followed by a blank line
SectionWellFormed ==
    /\ SectionStart # 0
    /\ LET b == SectionStart + Len(SectionDecls) + 1
       IN /\ b <= Len(input)
          /\ input[b].kind = "blank"
          /\ (b < Len(input) \/ endnl)

\* the units reachable from p through get_next_unit
RECURSIVE ListFrom(_, _, _)
ListFrom(us, p, fuel) ==
    IF p = 0 \/ fuel = 0 THEN <<>>
    ELSE <<p>> \o ListFrom(us, GetNextUnit(us, p), fuel - 1)

TheList == ListFrom(units, rootunit, Len(units) + 1)

\* unit u was constructed with the parameters of declaration d
BuiltFrom(u, d) ==
    /\ u.name = d.name
    /\ u.field = d.field
    /\ u.tm = Val(d.tm) /\ u.tp = Val(d.tp) /\ u.ts = Val(d.ts)
    /\ \A i \in 1..3 :
          u.xm[i] = Val(d.xm[i]) /\ u.xp[i] = Val(d.xp[i]) /\ u.xs[i] = Val(d.xs[i])

WorldAbort == <<[comm |-> "MPI_COMM_WORLD", errorcode |-> -1]>>

\* ------------------------------------------------------------------ claims

\* C1: after the constructor has returned on a file whose section holds N
\* well-formed declarations followed by a blank line, the list from rootunit
\* has exactly N units, the k-th is the one constructed for the k-th
\* declaration, and whatever follows the blank line has added no unit.
C1_ListInDeclarationOrder ==
    (pc = "ready" /\ SectionWellFormed) =>
        /\ Len(units) = Len(SectionDecls)
        /\ TheList = [k \in 1..Len(SectionDecls) |-> k]
        /\ \A k \in 1..Len(SectionDecls) :
              /\ units[k].name = SectionDecls[k].name
              /\ units[k].field = SectionDecls[k].field

C1_Witness ==
    /\ pc = "ready"
    /\ SectionWellFormed
    /\ Len(SectionDecls) = 2
    /\ TheList = <<1, 2>>
    /\ units[1].name # units[2].name

C1_WitnessAfterBlank ==
    /\ pc = "ready"
    /\ SectionWellFormed
    /\ Len(units) = 1
    /\ input[Len(input)].kind = "decl"
    /\ SectionStart + 2 < Len(input)

\* C2: when the file opens and none of its lines is the marker, the
\* constructor reports the read error on standard error, calls MPI_Abort on
\* MPI_COMM_WORLD, and no unit is ever created.
C2_MissingMarkerIsFatal ==
    (paramfile.open /\ ~HasMarkerLine) =>
        /\ pc \in {"scan", "scanned", "aborted"}
        /\ units = <<>> /\ rootunit = 0
        /\ pc = "aborted" => (stderr = <<ErrRead>> /\ aborted = WorldAbort)
        /\ pc # "aborted" => (stderr = <<>> /\ aborted = <<>>)

C2_Witness ==
    /\ paramfile.open
    /\ ~HasMarkerLine
    /\ NumLines >= 3
    /\ pc = "aborted"
    /\ stderr = <<ErrRead>>

\* C3: the constructor does not return normally when the file ends after the
\* marker line before a blank line has ended the section: the loop that reads
\* the units is never left by getline meeting the end of the file.
C3_PrematureEofIsFatal ==
    (pc \in {"close", "ready"} /\ HasMarkerLine) => ~paramfile.eof

\* C4: the destructor deletes every unit once, in list order, reads a next
\* pointer only of a unit that is not yet deleted, never deletes a unit twice,
\* and has deleted every unit when it returns; on an empty list it deletes
\* nothing.
C4_TeardownVisitsEachUnitOnce ==
    /\ ~fault
    /\ \A u \in 1..Len(units) : units[u].deleted <= 1
    /\ pc = "dtor" =>
          /\ visited = SubSeq(TheList, 1, Len(visited))
          /\ \A u \in 1..Len(units) :
                units[u].deleted = 1 <=> \E i \in 1..Len(visited) : visited[i] = u
          /\ ounit = cunit
          /\ ounit = IF Len(visited) < Len(TheList) THEN TheList[Len(visited) + 1] ELSE 0
    /\ pc = "destroyed" =>
          /\ visited = TheList
          /\ \A u \in 1..Len(units) : units[u].deleted = 1
          /\ rootunit = 0 => visited = <<>>

C4_Witness ==
    /\ pc = "destroyed"
    /\ Len(units) >= 2
    /\ \A u \in 1..Len(units) : units[u].deleted = 1

\* C5: no unit is deleted by the destructor while its output file is open.
C5_FileClosedBeforeFree ==
    \A u \in 1..Len(units) : units[u].deleted > 0 => ~units[u].open

\* C6: when the input file cannot be opened the constructor reports the open
\* error on standard error, calls MPI_Abort on MPI_COMM_WORLD and creates no
\* unit: rootunit stays null.
C6_OpenFailureIsFatal ==
    (pc \in {"scan", "scanned", "unitloop", "extract", "append", "close", "aborted"}
     /\ ~paramfile.open) =>
        /\ pc = "aborted"
        /\ stderr = <<ErrOpen>>
        /\ aborted = WorldAbort
        /\ rootunit = 0
        /\ units = <<>>

C6_Witness ==
    /\ pc = "aborted"
    /\ ~paramfile.open
    /\ stderr = <<ErrOpen>>
    /\ HasMarkerLine

\* C7: the unit constructed for the k-th well-formed declaration of the
\* section holds that declaration's name, field, tmin, tmax, tstride and the
\* three (xmin, xmax, xstride) triples; a file of the marker, one declaration
\* and a blank line gives a list of exactly that one unit.
C7_UnitHoldsDeclaredParameters ==
    /\ \A k \in 1..Len(units) :
          k <= Len(SectionDecls) => BuiltFrom(units[k], SectionDecls[k])
    /\ (pc = "ready" /\ Len(input) = 3 /\ SectionStart = 1 /\ SectionWellFormed
        /\ Len(SectionDecls) = 1) =>
          (TheList = <<1>> /\ Len(units) = 1 /\ BuiltFrom(units[1], input[2].d))

C7_Witness ==
    /\ pc = "ready"
    /\ Len(units) = 2
    /\ Len(SectionDecls) = 2
    /\ BuiltFrom(units[1], DeclB)
    /\ BuiltFrom(units[2], DeclA)

\* C8: a call of write_list or close_list acts on every unit of the list
\* once, in list order (every turn of its loop acts on the next unit of the
\* list, so the loop ends after as many turns as the list has units), returns
\* after the last unit, and changes neither rootunit nor the set of units nor
\* any next link.
C8_TraversalStep ==
    /\ pc \in {"ready", "write", "closing"} =>
          /\ rootunit' = rootunit
          /\ Len(units') = Len(units)
          /\ \A u \in 1..Len(units) : units'[u].next = units[u].next
    /\ pc' \in {"write", "closing"} =>
          /\ visited' = SubSeq(TheList, 1, Len(visited'))
          /\ cunit' = IF Len(visited') < Len(TheList)
                      THEN TheList[Len(visited') + 1] ELSE 0
    /\ pc \in {"write", "closing"} =>
          \/ pc' = "ready" /\ visited = TheList /\ units' = units
          \/ pc' = pc /\ Len(visited') = Len(visited) + 1

C8_TraversalVisitsEachUnitOnce == [][C8_TraversalStep]_vars

C8_Witness ==
    /\ pc = "write"
    /\ cunit = 0
    /\ Len(units) >= 2
    /\ visited = TheList
    /\ \E u \in 1..Len(units) : units[u].open

\* C9 as stated: whenever a line of an input file that opens is the marker,
\* the constructor does not abort.
C9_MarkerLineNeverAborts ==
    (paramfile.open /\ HasMarkerLine) => pc # "aborted"

\* C9 as amended: the read error is fatal exactly when the scan for the marker
\* reaches the end of the file, that is when no line is the marker or when
\* the first marker line is the last line of the file and has no newline.
\* When the first marker line ends with a newline the constructor does not
\* abort and returns a list.
C9_AbortIffScanReachesEof ==
    /\ (paramfile.open /\ pc = "aborted") => ~MarkerLineTerminated
    /\ pc \in {"unitloop", "extract", "append", "close", "ready"} =>
          (MarkerLineTerminated /\ stderr = <<>> /\ aborted = <<>>)

C9_Witness ==
    /\ pc = "ready"
    /\ MarkerLineTerminated
    /\ LastLineIsMarker
    /\ rootunit = 0

C9_WitnessUnterminated ==
    /\ pc = "aborted"
    /\ paramfile.open
    /\ HasMarkerLine

\* C10: a unit is appended only when the field token and the 12 integers of
\* its declaration were all read: the stream has not failed when the unit is
\* constructed.
C10_AppendStep == Len(units') > Len(units) => ~paramfile.fail

C10_UnitOnlyFromReadTokens == [][C10_AppendStep]_vars

====
